---- MODULE Spec2Model ----
(***************************************************************************)
(* Model of the completion endpoint of api/completions.py (duplicated in   *)
(* api/index.py).  Python strings are sequences of one-character strings,  *)
(* so that slicing, stripping, splitting and prefix tests are computed the *)
(* way the interpreter computes them.                                      *)
(***************************************************************************)
EXTENDS Integers, Sequences, FiniteSets, TLC

\* ---------------------------------------------------------------- bounds
MaxIndent == 3
MaxCursor == 1
MaxDocLines == 2
MaxLineNumber == 2

\* ------------------------------------------------------- string literals
K_server == <<"s", "e", "r", "v", "e", "r">>
K_logging == <<"l", "o", "g", "g", "i", "n", "g">>
K_host == <<"h", "o", "s", "t">>
K_port == <<"p", "o", "r", "t">>
K_use_ssl == <<"u", "s", "e", "_", "s", "s", "l">>
K_level == <<"l", "e", "v", "e", "l">>
K_file == <<"f", "i", "l", "e">>
K_None == <<"N", "o", "n", "e">>

\* ------------------------------------------------- Python str operations
Whitespace == {" ", "\t", "\n"}

RECURSIVE lstrip(_)
lstrip(s) ==
    IF s = <<>> THEN <<>>
    ELSE IF Head(s) \in Whitespace THEN lstrip(Tail(s))
    ELSE s

RECURSIVE rstrip(_)
rstrip(s) ==
    IF s = <<>> THEN <<>>
    ELSE IF s[Len(s)] \in Whitespace THEN rstrip(SubSeq(s, 1, Len(s) - 1))
    ELSE s

strip(s) == rstrip(lstrip(s))

\* s[:c] for any integer c
SliceTo(s, c) ==
    LET stop == IF c < 0 THEN (IF Len(s) + c < 0 THEN 0 ELSE Len(s) + c)
                ELSE (IF c > Len(s) THEN Len(s) ELSE c)
    IN SubSeq(s, 1, stop)

startswith(s, p) == Len(p) <= Len(s) /\ SubSeq(s, 1, Len(p)) = p

\* p in s
contains(s, p) == \E i \in 0..(Len(s) - Len(p)) : SubSeq(s, i + 1, i + Len(p)) = p

\* index of the first occurrence of character c in s, 0 when absent
RECURSIVE find(_, _, _)
find(s, c, i) ==
    IF i > Len(s) THEN 0
    ELSE IF s[i] = c THEN i
    ELSE find(s, c, i + 1)

\* s.split(c)
RECURSIVE split(_, _)
split(s, c) ==
    LET k == find(s, c, 1)
    IN IF k = 0 THEN <<s>>
       ELSE <<SubSeq(s, 1, k - 1)>> \o split(SubSeq(s, k + 1, Len(s)), c)

\* "\n".join(ls)
RECURSIVE join(_, _)
join(ls, sep) ==
    IF ls = <<>> THEN <<>>
    ELSE IF Len(ls) = 1 THEN ls[1]
    ELSE ls[1] \o sep \o join(Tail(ls), sep)

\* ----------------------------------------------------- yaml.safe_load
\* Values of the loader: None, a str, or a dict kept as the ordered
\* sequence of its items.
NoneV == [t |-> "none"]
StrV(s) == [t |-> "str", s |-> s]
DictV(d) == [t |-> "dict", d |-> d]
IntV(s) == [t |-> "int", s |-> s]
BoolV(b) == [t |-> "bool", b |-> b]

Digits == {"0", "1", "2", "3", "4", "5", "6", "7", "8", "9"}

IsDecimal(s) == s # <<>> /\ s[1] # "0" /\ \A i \in 1..Len(s) : s[i] \in Digits

YamlTrue == {<<"t", "r", "u", "e">>, <<"y", "e", "s">>, <<"o", "n">>}
YamlFalse == {<<"f", "a", "l", "s", "e">>, <<"n", "o">>, <<"o", "f", "f">>}

\* The value of a scalar: a quoted scalar is a str, a plain one goes
\* through the implicit resolvers (null, bool, int), and is a str otherwise.
Scalar(s) ==
    IF Len(s) >= 2 /\ s[1] = "'" /\ s[Len(s)] = "'" THEN StrV(SubSeq(s, 2, Len(s) - 1))
    ELSE IF s = <<>> \/ s = <<"n", "u", "l", "l">> \/ s = <<"~">> THEN NoneV
    ELSE IF s \in YamlTrue THEN BoolV(TRUE)
    ELSE IF s \in YamlFalse THEN BoolV(FALSE)
    ELSE IF IsDecimal(s) \/ s = <<"0">> THEN IntV(s)
    ELSE StrV(s)

Raised == [raised |-> TRUE, value |-> NoneV, next |-> 0]

RECURSIVE countSpaces(_)
countSpaces(s) ==
    IF s = <<>> \/ Head(s) # " " THEN 0 ELSE 1 + countSpaces(Tail(s))

\* One physical line of the document as the block scanner sees it.
YamlToken(l) ==
    LET ind == countSpaces(l)
        body == rstrip(SubSeq(l, ind + 1, Len(l)))
        k == find(body, ":", 1)
    IN [ind |-> ind,
        kind |-> IF body = <<>> THEN "blank"
                 ELSE IF body[1] = "\t" THEN "tab"
                 ELSE IF contains(body, <<"[">>) THEN "flow"
                 ELSE IF k > 0 /\ (k = Len(body) \/ body[k + 1] = " ") THEN "entry"
                 ELSE "scalar",
        key |-> IF k > 0 THEN strip(SubSeq(body, 1, k - 1)) ELSE <<>>,
        val |-> IF k > 0 THEN strip(SubSeq(body, k + 1, Len(body))) ELSE <<>>]

RECURSIVE YamlTokens(_)
YamlTokens(ls) ==
    IF ls = <<>> THEN <<>>
    ELSE LET tk == YamlToken(Head(ls))
         IN IF tk.kind = "blank" THEN YamlTokens(Tail(ls))
            ELSE <<tk>> \o YamlTokens(Tail(ls))

\* d[k] = v on an insertion-ordered dict
DictPut(d, k, v) ==
    IF \E i \in 1..Len(d) : d[i].k = k
    THEN [i \in 1..Len(d) |-> IF d[i].k = k THEN [k |-> k, v |-> v] ELSE d[i]]
    ELSE Append(d, [k |-> k, v |-> v])

\* Block mapping at indentation ind, starting at token i.
RECURSIVE YamlBlock(_, _, _, _)
YamlBlock(tk, i, ind, acc) ==
    IF i > Len(tk) \/ tk[i].ind < ind
    THEN [raised |-> FALSE, value |-> DictV(acc), next |-> i]
    ELSE IF tk[i].ind > ind \/ tk[i].kind # "entry" THEN Raised
    ELSE LET deeper == i < Len(tk) /\ tk[i + 1].ind > ind
         IN IF tk[i].val # <<>>
            THEN IF deeper THEN Raised
                 ELSE YamlBlock(tk, i + 1, ind, DictPut(acc, tk[i].key, Scalar(tk[i].val)))
            ELSE IF deeper
            THEN LET sub == YamlBlock(tk, i + 1, tk[i + 1].ind, <<>>)
                 IN IF sub.raised THEN Raised
                    ELSE YamlBlock(tk, sub.next, ind, DictPut(acc, tk[i].key, sub.value))
            ELSE YamlBlock(tk, i + 1, ind, DictPut(acc, tk[i].key, NoneV))

\* yaml.safe_load(text) for documents made of block-mapping lines whose
\* scalars are plain words: either raises or returns the loaded value.
safe_load(text) ==
    LET tk == YamlTokens(split(text, "\n"))
    IN IF tk = <<>> THEN [raised |-> FALSE, value |-> NoneV]
       ELSE IF \E i \in 1..Len(tk) : tk[i].kind \in {"tab", "flow"}
       THEN [raised |-> TRUE, value |-> NoneV]
       ELSE LET r == YamlBlock(tk, 1, tk[1].ind, <<>>)
            IN IF r.raised \/ r.next <= Len(tk)
               THEN [raised |-> TRUE, value |-> NoneV]
               ELSE [raised |-> FALSE, value |-> r.value]

\* repr(value)
RECURSIVE repr(_)
RECURSIVE reprItems(_)
reprItems(d) ==
    IF d = <<>> THEN <<>>
    ELSE LET it == <<"'">> \o d[1].k \o <<"'", ":", " ">> \o repr(d[1].v)
         IN IF Len(d) = 1 THEN it ELSE it \o <<",", " ">> \o reprItems(Tail(d))

repr(v) ==
    IF v.t = "none" THEN K_None
    ELSE IF v.t = "str" THEN <<"'">> \o v.s \o <<"'">>
    ELSE IF v.t = "int" THEN v.s
    ELSE IF v.t = "bool" THEN (IF v.b THEN <<"T", "r", "u", "e">> ELSE <<"F", "a", "l", "s", "e">>)
    ELSE <<"{">> \o reprItems(v.d) \o <<"}">>

\* str(value): a str is itself, anything else is its repr
str(v) == IF v.t = "str" THEN v.s ELSE repr(v)

\* ------------------------------------------------------ get_completions
\* existing_config without the except clause: the loader's exception escapes
existing_config_NoExcept(full_content) ==
    IF strip(full_content) = <<>> THEN [raised |-> FALSE, value |-> DictV(<<>>)]
    ELSE LET r == safe_load(full_content)
         IN [raised |-> r.raised, value |-> IF r.raised THEN DictV(<<>>) ELSE r.value]

\* try: yaml.safe_load(full_content) if full_content.strip() else {}
\* except Exception: {}
existing_config(full_content) ==
    IF strip(full_content) = <<>> THEN [raised |-> FALSE, value |-> DictV(<<>>)]
    ELSE LET r == safe_load(full_content)
         IN IF r.raised THEN [raised |-> FALSE, value |-> DictV(<<>>)]
            ELSE [raised |-> FALSE, value |-> r.value]

Item(label, kind, detail, insertText, documentation) ==
    [label |-> label, kind |-> kind, detail |-> detail,
     insertText |-> insertText, documentation |-> documentation]

ServerInsert == "server:\n  host: \"127.0.0.1\"\n  port: 3000\n  use_ssl: true"
LoggingInsert == "logging:\n  level: \"debug\"\n  file: \"./debug.log\""

\* RootCompletions with "elif" in place of the second "if" of the
\* empty-prefix branch
RootCompletions_Elif(text_before_cursor, config) ==
    IF text_before_cursor = <<>>
    THEN IF ~contains(str(config), K_server)
         THEN <<Item("server", "property", "Server configuration block", ServerInsert,
                     "Configure the web server settings including host, port, and SSL")>>
         ELSE IF ~contains(str(config), K_logging)
         THEN <<Item("logging", "property", "Logging configuration block", LoggingInsert,
                     "Configure logging settings including level and output file")>>
         ELSE <<>>
    ELSE IF startswith(text_before_cursor, <<"s">>)
    THEN <<Item("server", "property", "Server configuration block", ServerInsert,
                "Configure the web server settings")>>
    ELSE IF startswith(text_before_cursor, <<"l">>)
    THEN <<Item("logging", "property", "Logging configuration block", LoggingInsert,
                "Configure logging settings")>>
    ELSE <<>>

\* the branch "if leading_spaces == 0"
RootCompletions(text_before_cursor, config) ==
    IF text_before_cursor = <<>>
    THEN (IF ~contains(str(config), K_server)
          THEN <<Item("server", "property", "Server configuration block", ServerInsert,
                      "Configure the web server settings including host, port, and SSL")>>
          ELSE <<>>)
         \o
         (IF ~contains(str(config), K_logging)
          THEN <<Item("logging", "property", "Logging configuration block", LoggingInsert,
                      "Configure logging settings including level and output file")>>
          ELSE <<>>)
    ELSE IF startswith(text_before_cursor, <<"s">>)
    THEN <<Item("server", "property", "Server configuration block", ServerInsert,
                "Configure the web server settings")>>
    ELSE IF startswith(text_before_cursor, <<"l">>)
    THEN <<Item("logging", "property", "Logging configuration block", LoggingInsert,
                "Configure logging settings")>>
    ELSE <<>>

\* the loop "for i in range(line_number - 1, -1, -1)": the key of the first
\* line, going up from i, that is non-empty, does not start with a space and
\* contains ':'; <<"None">> stands for parent_key = None
NoParent == <<"None">>

\* parent_key without the "break": the topmost matching line wins
RECURSIVE parent_key_NoBreak(_, _)
parent_key_NoBreak(lines, i) ==
    IF i < 0 THEN NoParent
    ELSE LET above == parent_key_NoBreak(lines, i - 1)
         IN IF above # NoParent THEN above
            ELSE IF i < Len(lines)
                    /\ lines[i + 1] # <<>>
                    /\ ~startswith(lines[i + 1], <<" ">>)
                    /\ contains(lines[i + 1], <<":">>)
            THEN strip(split(lines[i + 1], ":")[1])
            ELSE NoParent

RECURSIVE parent_key(_, _)
parent_key(lines, i) ==
    IF i < 0 THEN NoParent
    ELSE IF i < Len(lines)
            /\ lines[i + 1] # <<>>
            /\ ~startswith(lines[i + 1], <<" ">>)
            /\ contains(lines[i + 1], <<":">>)
    THEN strip(split(lines[i + 1], ":")[1])
    ELSE parent_key(lines, i - 1)

ServerKeyItem(key) ==
    IF key = K_host
    THEN Item("host", "property", "string - Hostname or IP address", "host: \"127.0.0.1\"",
              "The hostname or IP address to bind to")
    ELSE IF key = K_port
    THEN Item("port", "property", "integer - Port number", "port: 3000",
              "The port number (1-65535)")
    ELSE Item("use_ssl", "property", "boolean - Enable SSL", "use_ssl: true",
              "Whether to enable SSL/TLS encryption")

LoggingKeyItem(key) ==
    IF key = K_level
    THEN Item("level", "property", "enum - Log level", "level: \"debug\"",
              "Log level: debug, info, warn, error")
    ELSE Item("file", "property", "string - Log file path", "file: \"./debug.log\"",
              "Path to the log output file")

server_keys == <<K_host, K_port, K_use_ssl>>
logging_keys == <<K_level, K_file>>

\* "for key in keys: if text_before_cursor == '' or key.startswith(...)"
RECURSIVE KeyLoop(_, _, _)
KeyLoop(keys, text_before_cursor, parent) ==
    IF keys = <<>> THEN <<>>
    ELSE (IF text_before_cursor = <<>> \/ startswith(Head(keys), text_before_cursor)
          THEN <<IF parent = K_server THEN ServerKeyItem(Head(keys))
                 ELSE LoggingKeyItem(Head(keys))>>
          ELSE <<>>)
         \o KeyLoop(Tail(keys), text_before_cursor, parent)

\* the branch "elif leading_spaces == 2"
FirstLevelCompletions(text_before_cursor, full_content, line_number) ==
    LET lines == split(full_content, "\n")
        parent == parent_key(lines, line_number - 1)
    IN IF parent = K_server THEN KeyLoop(server_keys, text_before_cursor, parent)
       ELSE IF parent = K_logging THEN KeyLoop(logging_keys, text_before_cursor, parent)
       ELSE <<>>

LevelItem(level) ==
    Item(level, "value", "Log level: " \o level, level, "Set logging level to " \o level)

\* the block "if ':' in text_before_cursor"
ValueCompletions(text_before_cursor) ==
    IF contains(text_before_cursor, <<":">>)
    THEN LET key == strip(split(text_before_cursor, ":")[1])
         IN IF key = K_use_ssl
            THEN <<Item("true", "value", "Enable SSL", "true", "Enable SSL/TLS"),
                   Item("false", "value", "Disable SSL", "false", "Disable SSL/TLS")>>
            ELSE IF key = K_level
            THEN <<LevelItem("debug"), LevelItem("info"), LevelItem("warn"), LevelItem("error")>>
            ELSE <<>>
    ELSE <<>>

\* get_completions: the outcome is the returned list, or an exception
get_completions(ln, cursor, content, lineno) ==
    LET text_before_cursor == strip(SliceTo(ln, cursor))
        leading_spaces == Len(ln) - Len(lstrip(ln))
        cfg == existing_config(content)
    IN IF cfg.raised THEN [raised |-> TRUE, completions |-> <<>>]
       ELSE [raised |-> FALSE,
             completions |->
                (IF leading_spaces = 0 THEN RootCompletions(text_before_cursor, cfg.value)
                 ELSE IF leading_spaces = 2
                 THEN FirstLevelCompletions(text_before_cursor, content, lineno)
                 ELSE <<>>)
                \o ValueCompletions(text_before_cursor)]

\* ------------------------------------- get_completions of api/index.py
\* index_existing_config without its except clause
index_existing_config_NoExcept(full_content) ==
    IF strip(full_content) = <<>> THEN [raised |-> FALSE, value |-> DictV(<<>>)]
    ELSE LET r == safe_load(full_content)
         IN [raised |-> r.raised, value |-> IF r.raised THEN DictV(<<>>) ELSE r.value]

\* try: yaml.safe_load(full_content) if full_content.strip() else {}
\* except: {}
index_existing_config(full_content) ==
    IF strip(full_content) = <<>> THEN [raised |-> FALSE, value |-> DictV(<<>>)]
    ELSE LET r == safe_load(full_content)
         IN IF r.raised THEN [raised |-> FALSE, value |-> DictV(<<>>)]
            ELSE [raised |-> FALSE, value |-> r.value]

index_Item(label, kind, detail, insertText, documentation) ==
    [label |-> label, kind |-> kind, detail |-> detail,
     insertText |-> insertText, documentation |-> documentation]

index_ServerInsert == "server:\n  host: \"127.0.0.1\"\n  port: 3000\n  use_ssl: true"
index_LoggingInsert == "logging:\n  level: \"debug\"\n  file: \"./debug.log\""

\* the branch "if leading_spaces == 0"
index_RootCompletions(text_before_cursor, config) ==
    IF text_before_cursor = <<>>
    THEN (IF ~contains(str(config), K_server)
          THEN <<index_Item("server", "property", "Server configuration block", index_ServerInsert,
                      "Configure the web server settings including host, port, and SSL")>>
          ELSE <<>>)
         \o
         (IF ~contains(str(config), K_logging)
          THEN <<index_Item("logging", "property", "Logging configuration block", index_LoggingInsert,
                      "Configure logging settings including level and output file")>>
          ELSE <<>>)
    ELSE IF startswith(text_before_cursor, <<"s">>)
    THEN <<index_Item("server", "property", "Server configuration block", index_ServerInsert,
                "Configure the web server settings")>>
    ELSE IF startswith(text_before_cursor, <<"l">>)
    THEN <<index_Item("logging", "property", "Logging configuration block", index_LoggingInsert,
                "Configure logging settings")>>
    ELSE <<>>

\* the loop "for i in range(line_number - 1, -1, -1)": the key of the first
\* line, going up from i, that is non-empty, does not start with a space and
\* contains ':'; <<"None">> stands for parent_key = None
index_NoParent == <<"None">>

RECURSIVE index_parent_key(_, _)
index_parent_key(lines, i) ==
    IF i < 0 THEN index_NoParent
    ELSE IF i < Len(lines)
            /\ lines[i + 1] # <<>>
            /\ ~startswith(lines[i + 1], <<" ">>)
            /\ contains(lines[i + 1], <<":">>)
    THEN strip(split(lines[i + 1], ":")[1])
    ELSE index_parent_key(lines, i - 1)

index_ServerKeyItem(key) ==
    IF key = K_host
    THEN index_Item("host", "property", "string - Hostname or IP address", "host: \"127.0.0.1\"",
              "The hostname or IP address to bind to")
    ELSE IF key = K_port
    THEN index_Item("port", "property", "integer - Port number", "port: 3000",
              "The port number (1-65535)")
    ELSE index_Item("use_ssl", "property", "boolean - Enable SSL", "use_ssl: true",
              "Whether to enable SSL/TLS encryption")

index_LoggingKeyItem(key) ==
    IF key = K_level
    THEN index_Item("level", "property", "enum - Log level", "level: \"debug\"",
              "Log level: debug, info, warn, error")
    ELSE index_Item("file", "property", "string - Log file path", "file: \"./debug.log\"",
              "Path to the log output file")

index_server_keys == <<K_host, K_port, K_use_ssl>>
index_logging_keys == <<K_level, K_file>>

\* "for key in keys: if text_before_cursor == '' or key.startswith(...)"
RECURSIVE index_KeyLoop(_, _, _)
index_KeyLoop(keys, text_before_cursor, parent) ==
    IF keys = <<>> THEN <<>>
    ELSE (IF text_before_cursor = <<>> \/ startswith(Head(keys), text_before_cursor)
          THEN <<IF parent = K_server THEN index_ServerKeyItem(Head(keys))
                 ELSE index_LoggingKeyItem(Head(keys))>>
          ELSE <<>>)
         \o index_KeyLoop(Tail(keys), text_before_cursor, parent)

\* the branch "elif leading_spaces == 2"
index_FirstLevelCompletions(text_before_cursor, full_content, line_number) ==
    LET lines == split(full_content, "\n")
        parent == index_parent_key(lines, line_number - 1)
    IN IF parent = K_server THEN index_KeyLoop(index_server_keys, text_before_cursor, parent)
       ELSE IF parent = K_logging THEN index_KeyLoop(index_logging_keys, text_before_cursor, parent)
       ELSE <<>>

index_LevelItem(level) ==
    index_Item(level, "value", "Log level: " \o level, level, "Set logging level to " \o level)

\* the block "if ':' in text_before_cursor"
index_ValueCompletions(text_before_cursor) ==
    IF contains(text_before_cursor, <<":">>)
    THEN LET key == strip(split(text_before_cursor, ":")[1])
         IN IF key = K_use_ssl
            THEN <<index_Item("true", "value", "Enable SSL", "true", "Enable SSL/TLS"),
                   index_Item("false", "value", "Disable SSL", "false", "Disable SSL/TLS")>>
            ELSE IF key = K_level
            THEN <<index_LevelItem("debug"), index_LevelItem("info"),
                   index_LevelItem("warn"), index_LevelItem("error")>>
            ELSE <<>>
    ELSE <<>>

\* get_completions of api/index.py: the outcome is the returned list, or an exception
index_get_completions(ln, cursor, content, lineno) ==
    LET text_before_cursor == strip(SliceTo(ln, cursor))
        leading_spaces == Len(ln) - Len(lstrip(ln))
        cfg == index_existing_config(content)
    IN IF cfg.raised THEN [raised |-> TRUE, completions |-> <<>>]
       ELSE [raised |-> FALSE,
             completions |->
                (IF leading_spaces = 0 THEN index_RootCompletions(text_before_cursor, cfg.value)
                 ELSE IF leading_spaces = 2
                 THEN index_FirstLevelCompletions(text_before_cursor, content, lineno)
                 ELSE <<>>)
                \o index_ValueCompletions(text_before_cursor)]

\* ------------------------------------------------------------- requests
\* Text typed on the current line after its indentation.
Bodies ==
    {<<>>, <<"s">>, <<"s", "x">>, <<"l">>, <<"l", "x">>, <<"h", "o">>, <<"f">>,
     K_use_ssl \o <<":">>, K_level \o <<":">>, K_host \o <<":">>}

RECURSIVE Spaces(_)
Spaces(n) == IF n = 0 THEN <<>> ELSE <<" ">> \o Spaces(n - 1)

Lines == {Spaces(n) \o b : n \in 0..MaxIndent, b \in Bodies}

\* Lines a document is made of.
DocLines ==
    {K_server \o <<":">>,
     K_logging \o <<":">>,
     <<"o", "t", "h", "e", "r", ":">>,
     <<" ", " ">> \o K_host \o <<":", " ">> \o K_server,
     <<" ", " ">> \o K_server \o <<":", " ", "x">>,
     <<"m", "y">> \o K_server \o <<":", " ", "x">>,
     K_server \o <<":", " ", "[">>,
     <<"\t">> \o K_server \o <<":">>,
     <<" ", " ">>}

RECURSIVE SeqsUpTo(_, _)
SeqsUpTo(S, n) ==
    IF n = 0 THEN {<<>>}
    ELSE LET shorter == SeqsUpTo(S, n - 1)
         IN shorter \cup {Append(q, x) : q \in shorter, x \in S}

Documents == {join(d, <<"\n">>) : d \in SeqsUpTo(DocLines, MaxDocLines)}

Cursors(ln) == (-1..MaxCursor) \cup {Len(ln), Len(ln) + 1}

VARIABLES line, cursor_position, full_content, line_number, response, pc,
          index_response, index_pc,
          config_exists, config_file, http

vars == <<line, cursor_position, full_content, line_number, response, pc,
          index_response, index_pc, config_exists, config_file, http>>

\* the completion request and its two responses
completion_vars ==
    <<line, cursor_position, full_content, line_number, response, pc,
      index_response, index_pc>>

\* the file at CONFIG_FILE_PATH and the last call of the config API
config_vars == <<config_exists, config_file, http>>

NoCall == [op |-> "none", yaml_content |-> <<>>, status |-> 0]

NoResponse == [raised |-> FALSE, completions |-> <<>>]

Init ==
    /\ line \in Lines
    /\ cursor_position \in Cursors(line)
    /\ full_content \in Documents
    /\ line_number \in -1..MaxLineNumber
    /\ response = NoResponse
    /\ pc = "request"
    /\ index_response = NoResponse
    /\ index_pc = "request"
    /\ config_exists = FALSE
    /\ config_file = <<>>
    /\ http = NoCall

\* POST /api/py/completions, as registered by api/completions.py
post_completions ==
    /\ pc = "request"
    /\ response' = get_completions(line, cursor_position, full_content, line_number)
    /\ pc' = "done"
    /\ UNCHANGED <<line, cursor_position, full_content, line_number,
                   index_response, index_pc>>
    /\ UNCHANGED config_vars

\* POST /api/py/completions, as registered by api/index.py
index_post_completions ==
    /\ index_pc = "request"
    /\ index_response' =
           index_get_completions(line, cursor_position, full_content, line_number)
    /\ index_pc' = "done"
    /\ UNCHANGED <<line, cursor_position, full_content, line_number, response, pc>>
    /\ UNCHANGED config_vars

Next == post_completions

Spec == Init /\ [][Next]_vars

\* the same request served by both modules
NextIndex == post_completions \/ index_post_completions

SpecIndex == Init /\ [][NextIndex]_vars

\* ------------------------------------------------------- api/config.py
DEFAULT_CONFIG ==
    DictV(<<[k |-> K_server,
             v |-> DictV(<<[k |-> K_host, v |-> StrV(<<"1", "2", "7", ".", "0", ".", "0", ".", "1">>)],
                           [k |-> K_port, v |-> IntV(<<"3", "0", "0", "0">>)],
                           [k |-> K_use_ssl, v |-> BoolV(TRUE)]>>)],
            [k |-> K_logging,
             v |-> DictV(<<[k |-> K_level, v |-> StrV(<<"d", "e", "b", "u", "g">>)],
                           [k |-> K_file, v |-> StrV(<<".", "/", "d", "e", "b", "u", "g", ".", "l", "o", "g">>)]>>)]>>)

\* yaml.dump of a scalar: a str that a loader would read back as something
\* else is written in single quotes
dump_scalar(v) ==
    IF v.t = "none" THEN <<"n", "u", "l", "l">>
    ELSE IF v.t = "bool" THEN (IF v.b THEN <<"t", "r", "u", "e">> ELSE <<"f", "a", "l", "s", "e">>)
    ELSE IF v.t = "int" THEN v.s
    ELSE IF Scalar(v.s).t # "str" \/ Scalar(v.s).s # v.s THEN <<"'">> \o v.s \o <<"'">>
    ELSE v.s

\* yaml.dump(config, f, default_flow_style=False, sort_keys=False)
RECURSIVE dump_items(_, _)
dump_items(d, indent) ==
    IF d = <<>> THEN <<>>
    ELSE LET head == Spaces(indent) \o d[1].k \o <<":">>
         IN (IF d[1].v.t = "dict"
             THEN head \o <<"\n">> \o dump_items(d[1].v.d, indent + 2)
             ELSE head \o <<" ">> \o dump_scalar(d[1].v) \o <<"\n">>)
            \o dump_items(Tail(d), indent)

dump(v) == dump_items(v.d, 0)

HasKey(d, k) == \E i \in 1..Len(d) : d[i].k = k

Lookup(d, k) == d[CHOOSE i \in 1..Len(d) : d[i].k = k].v

\* field validators of the data-validation library: str, int, bool
StrField(v) == v.t = "str"

IntField(v) == v.t \in {"int", "bool"} \/ (v.t = "str" /\ (IsDecimal(v.s) \/ v.s = <<"0">>))

BoolWords ==
    {<<"0">>, <<"1">>, <<"t">>, <<"f">>, <<"y">>, <<"n">>, <<"t", "r", "u", "e">>, <<"f", "a", "l", "s", "e">>,
     <<"y", "e", "s">>, <<"n", "o">>, <<"o", "n">>, <<"o", "f", "f">>}

BoolField(v) ==
    \/ v.t = "bool"
    \/ v.t = "int" /\ v.s \in {<<"0">>, <<"1">>}
    \/ v.t = "str" /\ v.s \in BoolWords

\* class ServerConfig
ServerConfig(v) ==
    /\ v.t = "dict"
    /\ HasKey(v.d, K_host) /\ StrField(Lookup(v.d, K_host))
    /\ HasKey(v.d, K_port) /\ IntField(Lookup(v.d, K_port))
    /\ HasKey(v.d, K_use_ssl) /\ BoolField(Lookup(v.d, K_use_ssl))

LogLevels == {<<"d", "e", "b", "u", "g">>, <<"i", "n", "f", "o">>, <<"w", "a", "r", "n">>, <<"e", "r", "r", "o", "r">>}

\* class LoggingConfig
LoggingConfig(v) ==
    /\ v.t = "dict"
    /\ HasKey(v.d, K_level)
    /\ Lookup(v.d, K_level).t = "str"
    /\ Lookup(v.d, K_level).s \in LogLevels
    /\ HasKey(v.d, K_file) /\ StrField(Lookup(v.d, K_file))

\* Config(**config_dict) returns without raising
Config(v) ==
    /\ v.t = "dict"
    /\ HasKey(v.d, K_server) /\ ServerConfig(Lookup(v.d, K_server))
    /\ HasKey(v.d, K_logging) /\ LoggingConfig(Lookup(v.d, K_logging))

\* Bodies of update requests: a server block and a logging block with each
\* field drawn from a few values, a server block alone, an empty body, and
\* a body that is not YAML.
Ports == {<<"3", "0", "0", "0">>, <<"'", "8", "0", "8", "0", "'">>, <<"a", "b", "c">>}
Flags == {<<"t", "r", "u", "e">>, <<"f", "a", "l", "s", "e">>}
Levels == {<<"d", "e", "b", "u", "g">>, <<"e", "r", "r", "o", "r">>, <<"v", "e", "r", "b", "o", "s", "e">>}

ServerBlock(port, flag) ==
    join(<<<<"s", "e", "r", "v", "e", "r", ":">>, <<" ", " ", "h", "o", "s", "t", ":", " ", "l", "o", "c", "a", "l", "h", "o", "s", "t">>, <<" ", " ", "p", "o", "r", "t", ":", " ">> \o port, <<" ", " ", "u", "s", "e", "_", "s", "s", "l", ":", " ">> \o flag>>,
         <<"\n">>)

LoggingBlock(level) ==
    join(<<<<"l", "o", "g", "g", "i", "n", "g", ":">>, <<" ", " ", "l", "e", "v", "e", "l", ":", " ">> \o level, <<" ", " ", "f", "i", "l", "e", ":", " ", ".", "/", "a", "p", "p", ".", "l", "o", "g">>>>, <<"\n">>)

Payloads ==
    {ServerBlock(p, f) \o <<"\n">> \o LoggingBlock(l) : p \in Ports, f \in Flags, l \in Levels}
    \cup {ServerBlock(p, f) : p \in Ports, f \in Flags}
    \cup {<<>>, <<"s", "e", "r", "v", "e", "r", ":", " ", "[">>}

\* ensure_config_exists: the file as it is after the call
ensure_config_exists == IF config_exists THEN config_file ELSE dump(DEFAULT_CONFIG)

\* GET /api/py/config
get_config ==
    LET file == ensure_config_exists
        config_dict == safe_load(file)
        ok == ~config_dict.raised /\ Config(config_dict.value)
    IN /\ config_exists' = TRUE
       /\ config_file' = file
       /\ http' = [op |-> "get_config", yaml_content |-> <<>>,
                   status |-> IF ok THEN 200 ELSE 500]
       /\ UNCHANGED completion_vars

\* update_config with save_config moved before the validation
update_config_SaveFirst ==
    \E yaml_content \in Payloads :
        LET config_dict == safe_load(yaml_content)
            parsed == ~config_dict.raised /\ config_dict.value.t = "dict"
            ok == ~config_dict.raised /\ Config(config_dict.value)
        IN /\ IF parsed
              THEN config_exists' = TRUE /\ config_file' = dump(config_dict.value)
              ELSE UNCHANGED <<config_exists, config_file>>
           /\ http' = [op |-> "update_config", yaml_content |-> yaml_content,
                       status |-> IF ok THEN 200 ELSE 400]
           /\ UNCHANGED completion_vars

\* POST /api/py/config
update_config ==
    \E yaml_content \in Payloads :
        LET config_dict == safe_load(yaml_content)
            ok == ~config_dict.raised /\ Config(config_dict.value)
        IN /\ IF ok
              THEN config_exists' = TRUE /\ config_file' = dump(config_dict.value)
              ELSE UNCHANGED <<config_exists, config_file>>
           /\ http' = [op |-> "update_config", yaml_content |-> yaml_content,
                       status |-> IF ok THEN 200 ELSE 400]
           /\ UNCHANGED completion_vars

\* The config API alone, starting with no file at CONFIG_FILE_PATH.
InitConfig ==
    /\ line = <<>>
    /\ cursor_position = 0
    /\ full_content = <<>>
    /\ line_number = 0
    /\ response = NoResponse
    /\ pc = "request"
    /\ index_response = NoResponse
    /\ index_pc = "request"
    /\ config_exists = FALSE
    /\ config_file = <<>>
    /\ http = NoCall

NextConfig == get_config \/ update_config

SpecConfig == InitConfig /\ [][NextConfig]_vars

\* ---------------------------------------------------- schema vocabulary
\* YAML_SCHEMA: the recognised keys in declaration order, with their types
YAML_SCHEMA ==
    <<[label |-> "server", name |-> K_server,
       properties |-> <<[label |-> "host", name |-> K_host, type |-> "string"],
                        [label |-> "port", name |-> K_port, type |-> "integer"],
                        [label |-> "use_ssl", name |-> K_use_ssl, type |-> "boolean"]>>],
      [label |-> "logging", name |-> K_logging,
       properties |-> <<[label |-> "level", name |-> K_level, type |-> "enum"],
                        [label |-> "file", name |-> K_file, type |-> "string"]>>]>>

\* ------------------------------------------------- notions of the claims
Done == pc = "done"

Labels == [i \in 1..Len(response.completions) |-> response.completions[i].label]

LabelsOf(nodes) == [i \in 1..Len(nodes) |-> nodes[i].label]

KeyCandidates == {i \in 1..Len(response.completions) : response.completions[i].kind = "property"}

ValueCandidates == {i \in 1..Len(response.completions) : response.completions[i].kind = "value"}

\* typedPrefix: the current line up to the cursor, trimmed
Typed == strip(SliceTo(line, cursor_position))

\* width of the leading whitespace of the current line
Indent == Len(line) - Len(lstrip(line))

IsValuePosition == \E i \in 1..Len(Typed) : Typed[i] = ":"

\* the key written before the first ':' of the typed text
TypedKey == strip(SubSeq(Typed, 1, find(Typed, ":", 1) - 1))

DocumentLines == split(full_content, "\n")

KeyOfLine(l) == strip(SubSeq(l, 1, find(l, ":", 1) - 1))

\* zero-based indices of the lines strictly above line_number that contain
\* ':' and do not begin with a space
UnindentedKeyLines ==
    {i \in 0..(Len(DocumentLines) - 1) :
        /\ i < line_number
        /\ find(DocumentLines[i + 1], ":", 1) > 0
        /\ DocumentLines[i + 1][1] # " "}

\* the same, for lines that begin with no whitespace at all
RootKeyLines == {i \in UnindentedKeyLines : DocumentLines[i + 1][1] \notin Whitespace}

Nearest(S) == CHOOSE i \in S : \A j \in S : j <= i

EnclosingKey == KeyOfLine(DocumentLines[Nearest(UnindentedKeyLines) + 1])

\* the document is not parseable: the loader raises on it
Unparseable == strip(full_content) # <<>> /\ safe_load(full_content).raised

\* key names at the root of the parsed document
RootKeysOfDocument ==
    LET cfg == existing_config(full_content).value
    IN IF cfg.t = "dict" THEN {cfg.d[i].k : i \in 1..Len(cfg.d)} ELSE {}

SchemaNode(name) == CHOOSE n \in {YAML_SCHEMA[i] : i \in 1..Len(YAML_SCHEMA)} : n.name = name

IsRootKey(name) == \E i \in 1..Len(YAML_SCHEMA) : YAML_SCHEMA[i].name = name

StartingWith(nodes, prefix) == SelectSeq(nodes, LAMBDA n : startswith(n.name, prefix))

\* ----------------------------------------------------------------- C1
\* C1: on an empty or whitespace-only document, with an empty current line
\* and the cursor at column 0, the result is exactly server then logging.
C1_EmptyDocumentRootKeys ==
    (Done /\ strip(full_content) = <<>> /\ line = <<>> /\ cursor_position = 0)
        => (~response.raised /\ Labels = <<"server", "logging">>)

C1_Witness ==
    /\ Done
    /\ full_content = <<" ", " ">>
    /\ line = <<>>
    /\ cursor_position = 0
    /\ Labels = <<"server", "logging">>

\* ----------------------------------------------------------------- C2
\* C2: at depth 0 with an empty typed prefix, a root key is suggested if and
\* only if it is not a key name at the root of the parsed document.
C2_RootKeySuppressedIffPresent ==
    (Done /\ Indent = 0 /\ Typed = <<>>)
        => Labels = LabelsOf(SelectSeq(YAML_SCHEMA, LAMBDA n : n.name \notin RootKeysOfDocument))

\* ----------------------------------------------------------------- C3
\* C3: at depth 0 with a non-empty typed prefix without ':', the result is
\* exactly the root keys whose name starts with the typed prefix, in schema
\* order.
C3_RootPrefixFilter ==
    (Done /\ Indent = 0 /\ Typed # <<>> /\ ~IsValuePosition)
        => Labels = LabelsOf(StartingWith(YAML_SCHEMA, Typed))

\* ----------------------------------------------------------------- C4
\* C4: on a line with exactly 2 leading spaces and no ':' typed, when the
\* nearest line above that has no leading space and contains ':' has key
\* server or logging, the result is exactly that key's children whose name
\* starts with the typed prefix, in declaration order.
C4_ChildKeysOfEnclosingKey ==
    (/\ Done
     /\ Indent = 2
     /\ ~IsValuePosition
     /\ UnindentedKeyLines # {}
     /\ IsRootKey(EnclosingKey))
        => (/\ ~response.raised
            /\ Labels = LabelsOf(StartingWith(SchemaNode(EnclosingKey).properties, Typed)))

C4_Witness ==
    /\ Done
    /\ Indent = 2
    /\ Typed = <<"f">>
    /\ UnindentedKeyLines # {}
    /\ EnclosingKey = K_logging
    /\ Cardinality(UnindentedKeyLines) = 2
    /\ Labels = <<"file">>

\* ----------------------------------------------------------------- C5
\* C5: typed text "use_ssl:" yields exactly true, false and typed text
\* "level:" yields exactly debug, info, warn, error, at every indentation
\* and for every document.
C5_ValueCandidatesOnly ==
    /\ (Done /\ Typed = K_use_ssl \o <<":">>) => Labels = <<"true", "false">>
    /\ (Done /\ Typed = K_level \o <<":">>) => Labels = <<"debug", "info", "warn", "error">>

\* ----------------------------------------------------------------- C6
\* C6: get_completions never raises, whatever the cursor and line number,
\* and on an unparseable document a depth-0 request with an empty prefix
\* returns both root suggestions.
C6_NeverRaises ==
    /\ Done => ~response.raised
    /\ (Done /\ Unparseable /\ Indent = 0 /\ Typed = <<>>) => Labels = <<"server", "logging">>

C6_Witness ==
    /\ Done
    /\ Unparseable
    /\ contains(full_content, K_server)
    /\ line = <<>>
    /\ cursor_position = -1
    /\ line_number = -1
    /\ ~response.raised
    /\ Labels = <<"server", "logging">>

\* ----------------------------------------------------------------- C7
\* C7: the depth is the leading-whitespace width divided by 2, truncated: a
\* line with 3 (resp. 1) leading spaces gives the result of the same line
\* with 2 (resp. 0) leading spaces.
FlooredLine == Spaces(2 * (Indent \div 2)) \o lstrip(line)

C7_RaggedIndentFloors ==
    (Done /\ Indent % 2 = 1 /\ cursor_position >= Len(line))
        => response = get_completions(FlooredLine, Len(FlooredLine), full_content, line_number)

\* ----------------------------------------------------------------- C8
\* C8: on a depth-1 line under server or logging, when the key before the
\* colon is not a child of the enclosing key, or is a string or integer
\* key, no value candidate is returned.
C8_ValuesResolvedAgainstPath ==
    (/\ Done
     /\ Indent = 2
     /\ IsValuePosition
     /\ UnindentedKeyLines # {}
     /\ IsRootKey(EnclosingKey)
     /\ \A i \in 1..Len(SchemaNode(EnclosingKey).properties) :
            LET p == SchemaNode(EnclosingKey).properties[i]
            IN p.name = TypedKey => p.type \in {"string", "integer"})
        => ValueCandidates = {}

\* ----------------------------------------------------------------- C9
\* C9: on a depth-1 line, when no line strictly above line_number has zero
\* leading whitespace and contains ':', or when the nearest such line's key
\* is neither server nor logging, no key candidate is returned.
C9_UnresolvedContextNoKeys ==
    (/\ Done
     /\ Indent = 2
     /\ \/ RootKeyLines = {}
        \/ ~IsRootKey(KeyOfLine(DocumentLines[Nearest(RootKeyLines) + 1])))
        => KeyCandidates = {}

\* ---------------------------------------------------------------- C11
\* C11: whenever the typed text before the cursor contains ':', every
\* returned candidate is a value candidate and none is a key candidate.
C11_ValuePositionExcludesKeys ==
    (Done /\ IsValuePosition)
        => (/\ KeyCandidates = {}
            /\ ValueCandidates = 1..Len(response.completions))

\* ---------------------------------------------------------------- C12
\* C12: for every request, get_completions of api/index.py and
\* get_completions of api/completions.py return the same candidate
\* sequence, field by field and in the same order.
C12_CopiesAgree ==
    (pc = "done" /\ index_pc = "done") => index_response = response

C12_Witness ==
    /\ pc = "done"
    /\ index_pc = "done"
    /\ Unparseable
    /\ Indent = 2
    /\ Typed = K_level \o <<":">>
    /\ Len(response.completions) = 4
    /\ index_response = response

\* ---------------------------------------------------------------- C13
\* C13: starting from a missing file, after any sequence of get_config and
\* update_config calls the persisted document validates against Config;
\* a load creates the default document only when no file exists and never
\* overwrites one; update_config writes only a body that validates; a
\* rejected update answers with an error and leaves the file unchanged.
PersistedValid ==
    config_exists => (~safe_load(config_file).raised /\ Config(safe_load(config_file).value))

BodyValidates(body) == ~safe_load(body).raised /\ Config(safe_load(body).value)

FileWritten == config_exists' # config_exists \/ config_file' # config_file

C13_Step ==
    /\ http'.op = "get_config" =>
          /\ config_exists'
          /\ config_exists => config_file' = config_file
          /\ ~config_exists => safe_load(config_file').value = DEFAULT_CONFIG
    /\ (http'.op = "update_config" /\ FileWritten) => BodyValidates(http'.yaml_content)
    /\ (http'.op = "update_config" /\ ~BodyValidates(http'.yaml_content)) =>
          (http'.status = 400 /\ ~FileWritten)

C13_PersistedConfigValid == [](PersistedValid) /\ [][C13_Step]_vars

C13_Witness ==
    /\ config_exists
    /\ http.op = "update_config"
    /\ http.status = 400
    /\ config_file # dump(DEFAULT_CONFIG)
    /\ Lookup(Lookup(safe_load(config_file).value.d, K_server).d, K_port) = StrV(<<"8", "0", "8", "0">>)

====
